---- MODULE Spec2Model ----
(***************************************************************************)
(* State-machine model of the mesh simulation engine of src/main.py:       *)
(* Node (motion, battery drain, reachability test, encounter log) and      *)
(* NetworkMesh (roster, clock, simulate_step).                             *)
(*                                                                         *)
(* Fixed-point representation of the floats of the program:                *)
(*   - lengths (positions, velocities*dt, ranges, bounds) are in units of  *)
(*     1/LenScale, so 10.0 is 20;                                          *)
(*   - battery levels and drain amounts are in units of 1/BatScale, so     *)
(*     100.0 is 1000000 and the BLE drain rate 0.01 is 100;                *)
(*   - a value of random.random() is given in tenths: r stands for r/10;   *)
(*   - time and dt are whole numbers of time units.                        *)
(***************************************************************************)
EXTENDS Integers, Sequences, FiniteSets

VARIABLES nodes,        \* NetworkMesh.nodes: the roster, a sequence of Node records
          time,         \* NetworkMesh.time
          bounds,       \* NetworkMesh.bounds
          connections,  \* the local list `connections` of the last simulate_step
          active_nodes, \* the local counter `active_nodes` at the end of the last simulate_step
          attempts,     \* the calls of can_communicate_with of the last simulate_step, in call order
          outcome,      \* how the last operation ended: "none" after __init__, "added" after
                        \* add_node, "returned" or "ValueError" after simulate_step
          steps,        \* number of simulate_step calls made so far
          last_dt       \* the dt argument of the last simulate_step (0 before the first)

vars == <<nodes, time, bounds, connections, active_nodes, attempts, outcome, steps, last_dt>>

----------------------------------------------------------------------------
(* Bounds of the model *)

MaxNodes == 2
MaxSteps == 3

(* Units *)

LenScale == 2
BatScale == 10000

----------------------------------------------------------------------------
(* Enumerations *)

BLE == "BLE"
WIFI == "WIFI"
GPS == "GPS"
CUSTOM == "CUSTOM"

\* class CommunicationType, in declaration (= iteration) order
CommunicationType == <<BLE, WIFI, GPS, CUSTOM>>

Protocols == {CommunicationType[k] : k \in 1..Len(CommunicationType)}

ACTIVE == "ACTIVE"
OFFLINE == "OFFLINE"
INTERMITTENT == "INTERMITTENT"

NodeState == {ACTIVE, OFFLINE, INTERMITTENT}

\* float('inf')
Infinity == -1

\* Node.PROTOCOL_RANGES, in length units
PROTOCOL_RANGES ==
    [p \in Protocols |->
        CASE p = BLE -> 10 * LenScale
          [] p = WIFI -> 100 * LenScale
          [] p = GPS -> Infinity
          [] p = CUSTOM -> 50 * LenScale]

\* Node.BATTERY_DRAIN_RATES, in battery units per time unit
BATTERY_DRAIN_RATES ==
    [p \in Protocols |->
        CASE p = BLE -> 100
          [] p = WIFI -> 500
          [] p = GPS -> 1000
          [] p = CUSTOM -> 300]

\* a low-battery threshold of 50
LowBattery_Fifty == 50 * BatScale

\* battery thresholds of drain_battery: 0 and 20
LowBattery == 20 * BatScale

\* values random.random() can return, in tenths (0 <= r/10 < 1)
RandomDraws == {0, 9}

----------------------------------------------------------------------------
(* Position *)

\* Position.distance_to, squared (the square of the value math.sqrt is applied to)
distance_sq(p, q) ==
    (p.x - q.x) * (p.x - q.x) + (p.y - q.y) * (p.y - q.y) + (p.z - q.z) * (p.z - q.z)

----------------------------------------------------------------------------
(* Node *)

\* Node.update_position
update_position(node, dt) ==
    [node EXCEPT !.position =
        [x |-> node.position.x + node.velocity[1] * dt,
         y |-> node.position.y + node.velocity[2] * dt,
         z |-> node.position.z + node.velocity[3] * dt,
         t |-> node.position.t + dt]]

Max(a, b) == IF a >= b THEN a ELSE b

\* drain_battery without its `if self.battery_level == 0` branch
drain_battery_NoOffline(node, amount, r1, r2) ==
    LET actual_drain == (amount * (80 + 4 * r1)) \div 100
        level == Max(0, node.battery_level - actual_drain)
        drained == [node EXCEPT !.battery_level = level]
    IN  IF level < LowBattery /\ r2 < 3
        THEN [drained EXCEPT !.state = INTERMITTENT]
        ELSE drained

\* drain_battery setting the state back to ACTIVE when the roll fails
drain_battery_Reverts(node, amount, r1, r2) ==
    LET actual_drain == (amount * (80 + 4 * r1)) \div 100
        level == Max(0, node.battery_level - actual_drain)
        drained == [node EXCEPT !.battery_level = level]
    IN  IF level = 0
        THEN [drained EXCEPT !.state = OFFLINE]
        ELSE IF level < LowBattery /\ r2 < 3
             THEN [drained EXCEPT !.state = INTERMITTENT]
             ELSE [drained EXCEPT !.state = ACTIVE]

\* drain_battery with a variance of 0.4 + random.random() * 0.4
drain_battery_LowVariance(node, amount, r1, r2) ==
    LET actual_drain == (amount * (40 + 4 * r1)) \div 100
        level == Max(0, node.battery_level - actual_drain)
        drained == [node EXCEPT !.battery_level = level]
    IN  IF level = 0
        THEN [drained EXCEPT !.state = OFFLINE]
        ELSE IF level < LowBattery /\ r2 < 3
             THEN [drained EXCEPT !.state = INTERMITTENT]
             ELSE drained

\* Node.drain_battery; r1 is the draw of the variance, r2 the draw of the
\* intermittent roll (used only when 0 < battery_level < 20)
drain_battery(node, amount, r1, r2) ==
    LET actual_drain == (amount * (80 + 4 * r1)) \div 100
        level == Max(0, node.battery_level - actual_drain)
        drained == [node EXCEPT !.battery_level = level]
    IN  IF level = 0
        THEN [drained EXCEPT !.state = OFFLINE]
        ELSE IF level < LowBattery /\ r2 < 3
             THEN [drained EXCEPT !.state = INTERMITTENT]
             ELSE drained

\* the set-intersection element store_encounter takes with [...][0]: the
\* iteration order of a set of enum members is not fixed, so any member
EncounterLabels(node, other_node) == node.protocols \cap other_node.protocols

\* store_encounter recording the position of the node itself
store_encounter_OwnPosition(node, other_node, timestamp, label) ==
    [node EXCEPT !.memory = Append(@,
        [node_id |-> other_node.id,
         timestamp |-> timestamp,
         position |-> <<node.position.x, node.position.y, node.position.z>>,
         protocol |-> label])]

\* Node.store_encounter, label being the element [0] of the intersection list
store_encounter(node, other_node, timestamp, label) ==
    [node EXCEPT !.memory = Append(@,
        [node_id |-> other_node.id,
         timestamp |-> timestamp,
         position |-> <<other_node.position.x, other_node.position.y, other_node.position.z>>,
         protocol |-> label])]

\* WithinRange with a noise of 0.9 + r * 0.4
WithinRange_WideNoise(dsq, range, r) ==
    IF range = Infinity
    THEN TRUE
    ELSE 10000 * dsq <= (range * (90 + 4 * r)) * (range * (90 + 4 * r))

\* distance <= effective_range, with effective_range = range * (0.9 + r * 0.2);
\* both sides are non-negative, so the squares are compared
WithinRange(dsq, range, r) ==
    IF range = Infinity
    THEN TRUE
    ELSE 10000 * dsq <= (range * (90 + 2 * r)) * (range * (90 + 2 * r))

\* can_communicate_with without the test of other.protocols
can_communicate_with_OwnProtocols(self, other, protocol, r1, r2) ==
    IF \/ protocol \notin self.protocols
       \/ self.state = OFFLINE
       \/ other.state = OFFLINE
    THEN FALSE
    ELSE IF (self.state = INTERMITTENT \/ other.state = INTERMITTENT) /\ r1 > 3
         THEN FALSE
         ELSE WithinRange(distance_sq(self.position, other.position),
                          PROTOCOL_RANGES[protocol], r2)

\* Node.can_communicate_with; r1 is the draw of the intermittent fault (used
\* only when one side is INTERMITTENT), r2 the draw of the range noise
can_communicate_with(self, other, protocol, r1, r2) ==
    IF \/ protocol \notin self.protocols
       \/ protocol \notin other.protocols
       \/ self.state = OFFLINE
       \/ other.state = OFFLINE
    THEN FALSE
    ELSE IF (self.state = INTERMITTENT \/ other.state = INTERMITTENT) /\ r1 > 3
         THEN FALSE
         ELSE WithinRange(distance_sq(self.position, other.position),
                          PROTOCOL_RANGES[protocol], r2)

----------------------------------------------------------------------------
(* NetworkMesh *)

\* the record of one call of can_communicate_with: its arguments as they were
\* at the moment of the call, and its result
Call(self, other, protocol, result) ==
    [source |-> self.id, target |-> other.id, protocol |-> protocol,
     result |-> result,
     self_state |-> self.state, other_state |-> other.state,
     self_protocols |-> self.protocols, other_protocols |-> other.protocols,
     distance_sq |-> distance_sq(self.position, other.position)]

\* TryProtocols without the `break`
RECURSIVE TryProtocols_NoBreak(_, _, _)
TryProtocols_NoBreak(node, other_node, k) ==
    IF k > Len(CommunicationType)
    THEN {<<>>}
    ELSE LET protocol == CommunicationType[k]
             results == {can_communicate_with(node, other_node, protocol, r1, r2) :
                            r1 \in RandomDraws, r2 \in RandomDraws}
         IN  UNION {{<<Call(node, other_node, protocol, res)>> \o rest :
                       rest \in TryProtocols_NoBreak(node, other_node, k + 1)}
                    : res \in results}

\* simulate_step, `for protocol in CommunicationType: if ...: ...; break`:
\* the possible sequences of calls made for one (node, other_node), from the
\* k-th protocol on; a sequence ends with the first successful call
RECURSIVE TryProtocols(_, _, _)
TryProtocols(node, other_node, k) ==
    IF k > Len(CommunicationType)
    THEN {<<>>}
    ELSE LET protocol == CommunicationType[k]
             results == {can_communicate_with(node, other_node, protocol, r1, r2) :
                            r1 \in RandomDraws, r2 \in RandomDraws}
         IN  UNION {IF res
                    THEN {<<Call(node, other_node, protocol, res)>>}
                    ELSE {<<Call(node, other_node, protocol, res)>> \o rest :
                            rest \in TryProtocols(node, other_node, k + 1)}
                    : res \in results}

\* simulate_step, the body of `if node.can_communicate_with(...)`, for each call
\* of `calls` from the k-th on that returned True: the connection is appended
\* and node i stores the encounter
RECURSIVE RecordCalls(_, _, _, _, _, _)
RecordCalls(st, i, j, calls, k, now) ==
    IF k > Len(calls)
    THEN {st}
    ELSE IF ~calls[k].result
         THEN RecordCalls(st, i, j, calls, k + 1, now)
         ELSE LET node == st.nodes[i]
                  other_node == st.nodes[j]
              IN  UNION {RecordCalls(
                            [st EXCEPT
                               !.nodes[i] = store_encounter(node, other_node, now, label),
                               !.connections = Append(@, <<node.id, other_node.id,
                                                           calls[k].protocol>>)],
                            i, j, calls, k + 1, now)
                         : label \in EncounterLabels(node, other_node)}

\* ConnectOthers over the nodes after node i only (`node.id < other_node.id`)
RECURSIVE ConnectOthers_LaterOnly(_, _, _, _)
ConnectOthers_LaterOnly(st, i, j, now) ==
    IF j > Len(st.nodes)
    THEN {st}
    ELSE IF st.nodes[i].id >= st.nodes[j].id
         THEN ConnectOthers_LaterOnly(st, i, j + 1, now)
         ELSE UNION {
                UNION {ConnectOthers_LaterOnly(st2, i, j + 1, now) :
                         st2 \in RecordCalls([st EXCEPT !.attempts = @ \o calls],
                                             i, j, calls, 1, now)}
                : calls \in TryProtocols(st.nodes[i], st.nodes[j], 1)}

\* simulate_step, `for other_node in self.nodes: if node.id != other_node.id`:
\* the possible results of the inner loop of node i from the j-th node on;
\* st holds the roster and the locals active_nodes, connections
RECURSIVE ConnectOthers(_, _, _, _)
ConnectOthers(st, i, j, now) ==
    IF j > Len(st.nodes)
    THEN {st}
    ELSE IF st.nodes[i].id = st.nodes[j].id
         THEN ConnectOthers(st, i, j + 1, now)
         ELSE UNION {
                UNION {ConnectOthers(st2, i, j + 1, now) :
                         st2 \in RecordCalls([st EXCEPT !.attempts = @ \o calls],
                                             i, j, calls, 1, now)}
                : calls \in TryProtocols(st.nodes[i], st.nodes[j], 1)}

\* simulate_step, one pass of the body of `for i in range(3)`
ReflectOnce(node, bnds) ==
    LET v0 == node.velocity
        v1 == IF node.position.x < 0 \/ node.position.x > bnds[1]
              THEN <<-v0[1], v0[2], v0[3]>> ELSE v0
        v2 == IF node.position.y < 0 \/ node.position.y > bnds[2]
              THEN <<v1[1], -v1[2], v1[3]>> ELSE v1
        v3 == IF node.position.z < 0 \/ node.position.z > bnds[3]
              THEN <<v2[1], v2[2], -v2[3]>> ELSE v2
    IN  [node EXCEPT !.velocity = v3]

\* the boundary checking loop with `range(2)`
BoundaryCheck_Twice(node, bnds) == ReflectOnce(ReflectOnce(node, bnds), bnds)

\* simulate_step, the boundary checking loop `for i in range(3)`
BoundaryCheck(node, bnds) == ReflectOnce(ReflectOnce(ReflectOnce(node, bnds), bnds), bnds)

RECURSIVE SumRates(_)
SumRates(ps) ==
    IF ps = {} THEN 0
    ELSE LET p == CHOOSE q \in ps : TRUE
         IN  BATTERY_DRAIN_RATES[p] + SumRates(ps \ {p})

\* simulate_step, total_drain
total_drain(node) == SumRates(node.protocols)

\* the outer loop without its test of the state
IsUpdated_Always(node) == TRUE

\* simulate_step, `if node.state != NodeState.OFFLINE`
IsUpdated(node) == node.state # OFFLINE

\* `if node.state != NodeState.OFFLINE` in the place of `== NodeState.ACTIVE`
Initiates_NotOffline(node) == node.state # OFFLINE

\* simulate_step, `if node.state == NodeState.ACTIVE`
Initiates(node) == node.state = ACTIVE

\* simulate_step, `elif active_nodes > 0: active_nodes -= 1`
CountNotActive(count) == IF count > 0 THEN count - 1 ELSE count

\* simulate_step, `for node in self.nodes`: the possible results of the outer
\* loop from the i-th node on
RECURSIVE StepNodes(_, _, _, _, _)
StepNodes(st, i, dt, bnds, now) ==
    IF i > Len(st.nodes)
    THEN {st}
    ELSE IF ~IsUpdated(st.nodes[i])
         THEN StepNodes(st, i + 1, dt, bnds, now)
         ELSE LET moved == BoundaryCheck(update_position(st.nodes[i], dt), bnds)
                  amount == total_drain(moved) * dt
              IN  UNION {
                    LET drained == drain_battery(moved, amount, r1, r2)
                        st1 == [st EXCEPT !.nodes[i] = drained]
                    IN  IF Initiates(drained)
                        THEN UNION {StepNodes(st2, i + 1, dt, bnds, now) :
                                      st2 \in ConnectOthers(
                                                [st1 EXCEPT !.active_nodes = @ + 1], i, 1, now)}
                        ELSE StepNodes([st1 EXCEPT !.active_nodes = CountNotActive(@)],
                                       i + 1, dt, bnds, now)
                    : r1 \in RandomDraws, r2 \in RandomDraws}

\* simulate_step, the print at its end: min() of an empty sequence raises
\* ValueError before anything is printed or returned
Report(roster) == IF Len(roster) = 0 THEN "ValueError" ELSE "returned"

----------------------------------------------------------------------------
(* Inputs *)

\* the dt arguments of simulate_step
DtInputs == {-1, 1}

\* the bounds arguments of NetworkMesh(bounds): (25.0, 25.0, 10.0) as in __main__
BoundsInputs == {<<25 * LenScale, 25 * LenScale, 10 * LenScale>>}

\* velocities add_node can draw: uniform(-5, 5), uniform(-5, 5), uniform(-0.5, 0.5)
VelocityDraws == {<<0, 0, 0>>, <<10, -10, 1>>}

NodeInput(x, y, z, state, battery_level, protocols) ==
    [position |-> [x |-> x, y |-> y, z |-> z, t |-> 0],
     state |-> state, battery_level |-> battery_level, protocols |-> protocols]

\* the Node objects handed to add_node (id and velocity are set on adding)
NodeInputs ==
    {NodeInput(10, 10, 10, ACTIVE, 100 * BatScale, {BLE}),
     NodeInput(20, 10, 10, ACTIVE, 100 * BatScale, {BLE, WIFI}),
     NodeInput(29, 10, 10, ACTIVE, 150, {BLE}),
     NodeInput(10, 40, 10, INTERMITTENT, 19 * BatScale, {BLE, WIFI, GPS}),
     NodeInput(20, 10, 10, OFFLINE, 0, {BLE, WIFI})}

----------------------------------------------------------------------------
(* Operations *)

\* NetworkMesh.__init__
Init ==
    /\ nodes = <<>>
    /\ time = 0
    /\ bounds \in BoundsInputs
    /\ connections = <<>>
    /\ active_nodes = 0
    /\ attempts = <<>>
    /\ outcome = "none"
    /\ steps = 0
    /\ last_dt = 0

\* the Node `input` with the given id, as add_node leaves it in the roster:
\* with the velocity add_node drew
NewNode(id, input, velocity) ==
    [id |-> id,
     position |-> input.position,
     state |-> input.state,
     battery_level |-> input.battery_level,
     protocols |-> input.protocols,
     memory |-> <<>>,
     velocity |-> velocity]

\* the rosters add_node(node) can leave for a node of `inputs`; ids are given
\* in insertion order as by Simulation.generate_random_nodes
Added(inputs) ==
    {Append(nodes, NewNode(Len(nodes), input, velocity)) :
        input \in inputs, velocity \in VelocityDraws}

\* NetworkMesh.add_node, with its argument drawn from NodeInputs
add_node ==
    /\ Len(nodes) < MaxNodes
    /\ nodes' \in Added(NodeInputs)
    /\ outcome' = "added"
    /\ UNCHANGED <<time, bounds, connections, active_nodes, attempts, steps, last_dt>>

\* NetworkMesh.simulate_step(dt)
SimulateStep(dt) ==
    /\ time' = time + dt
    /\ \E st \in StepNodes([nodes |-> nodes, active_nodes |-> 0,
                            connections |-> <<>>, attempts |-> <<>>],
                           1, dt, bounds, time + dt) :
          /\ nodes' = st.nodes
          /\ connections' = st.connections
          /\ active_nodes' = st.active_nodes
          /\ attempts' = st.attempts
          /\ outcome' = Report(st.nodes)
    /\ steps' = steps + 1
    /\ last_dt' = dt
    /\ UNCHANGED bounds

\* NetworkMesh.simulate_step, with its argument drawn from DtInputs
simulate_step ==
    /\ steps < MaxSteps
    /\ \E dt \in DtInputs : SimulateStep(dt)

Next == add_node \/ simulate_step

Spec == Init /\ [][Next]_vars

----------------------------------------------------------------------------
(* Node.can_communicate_with on its own: two nodes drawn from CommNodes, and
   calls of the function on every pair, protocol and draws *)

\* positions of the nodes of SpecComm: on the x axis at 0, 9.0, 11.0, 11.5,
\* 45.0, 55.5, 90.0 and 110.5, and at (6.0, 8.0, 0), which is 10.0 from the first
CommPositions ==
    {<<0, 0, 0>>, <<18, 0, 0>>, <<22, 0, 0>>, <<23, 0, 0>>, <<90, 0, 0>>,
     <<111, 0, 0>>, <<180, 0, 0>>, <<221, 0, 0>>, <<12, 16, 0>>}

CommProtocolSets == {{BLE, WIFI, GPS, CUSTOM}, {BLE, CUSTOM}, {WIFI, GPS}}

CommNode(id, pos, state, protocols) ==
    [id |-> id,
     position |-> [x |-> pos[1], y |-> pos[2], z |-> pos[3], t |-> 0],
     state |-> state, battery_level |-> 100 * BatScale, protocols |-> protocols,
     memory |-> <<>>, velocity |-> <<0, 0, 0>>]

InitComm ==
    /\ \E p1 \in {<<0, 0, 0>>}, p2 \in CommPositions, s1 \in NodeState, s2 \in NodeState,
          ps1 \in CommProtocolSets, ps2 \in CommProtocolSets :
          nodes = <<CommNode(0, p1, s1, ps1), CommNode(1, p2, s2, ps2)>>
    /\ time = 0
    /\ bounds \in BoundsInputs
    /\ connections = <<>>
    /\ active_nodes = 0
    /\ attempts = <<>>
    /\ outcome = "none"
    /\ steps = 0
    /\ last_dt = 0

\* one call self.can_communicate_with(other, protocol)
CallComm ==
    /\ \E i \in 1..Len(nodes), j \in 1..Len(nodes), protocol \in Protocols,
          r1 \in RandomDraws, r2 \in RandomDraws :
          attempts' = <<Call(nodes[i], nodes[j], protocol,
                             can_communicate_with(nodes[i], nodes[j], protocol, r1, r2))>>
    /\ UNCHANGED <<nodes, time, bounds, connections, active_nodes, outcome, steps, last_dt>>

NextComm == CallComm

SpecComm == InitComm /\ [][NextComm]_vars

----------------------------------------------------------------------------
(* Rosters given as a whole: the meshes of the scenarios *)

\* the rosters of 1..MaxNodes nodes made of the given Node inputs and velocities
RostersOf(inputs, velocities) ==
    UNION {{[i \in 1..n |-> NewNode(i - 1, f[i][1], f[i][2])] :
               f \in [1..n -> inputs \X velocities]} : n \in 1..MaxNodes}

\* a mesh whose roster is one of `rosters`, before its first tick
InitWith(rosters) ==
    /\ nodes \in rosters
    /\ time = 0
    /\ bounds \in BoundsInputs
    /\ connections = <<>>
    /\ active_nodes = 0
    /\ attempts = <<>>
    /\ outcome = "added"
    /\ steps = 0
    /\ last_dt = 0

\* nodes at rest: BLE-only nodes with a full battery at x = 5.0, 10.0, 14.0
\* and 16.5, and GPS-only nodes (drain rate 0.1) with battery 0.05, 0.08, 0.09
ScenarioInputs ==
    {NodeInput(10, 10, 10, ACTIVE, 100 * BatScale, {BLE}),
     NodeInput(20, 10, 10, ACTIVE, 100 * BatScale, {BLE}),
     NodeInput(28, 10, 10, ACTIVE, 100 * BatScale, {BLE}),
     NodeInput(33, 10, 10, ACTIVE, 100 * BatScale, {BLE}),
     NodeInput(10, 20, 10, ACTIVE, 500, {GPS}),
     NodeInput(10, 24, 10, INTERMITTENT, 800, {GPS}),
     NodeInput(10, 28, 10, ACTIVE, 900, {GPS})}

InitScenario == InitWith(RostersOf(ScenarioInputs, {<<0, 0, 0>>}))

SpecScenario == InitScenario /\ [][simulate_step]_vars

----------------------------------------------------------------------------
(* Moving nodes under ticks of different positive lengths *)

\* the dt arguments of the ticks of SpecBounce
BounceDts == {1, 2}

\* nodes in the middle of the world and near its far corner; the one with
\* battery 0.015 runs out in its first or second tick
BounceInputs ==
    {NodeInput(10, 10, 10, ACTIVE, 100 * BatScale, {BLE}),
     NodeInput(10, 10, 10, ACTIVE, 150, {BLE}),
     NodeInput(45, 45, 19, ACTIVE, 100 * BatScale, {BLE, WIFI})}

InitBounce == InitWith(RostersOf(BounceInputs, VelocityDraws))

\* NetworkMesh.simulate_step, with its argument drawn from BounceDts
bounce_step ==
    /\ steps < MaxSteps
    /\ \E dt \in BounceDts : SimulateStep(dt)

SpecBounce == InitBounce /\ [][bounce_step]_vars

----------------------------------------------------------------------------
(* Repeated ticks with one dt, until the batteries are empty *)

\* the dt argument, the same in every tick of a run
DrainDts == {1, 2}

\* nodes at rest and within BLE range of each other, with non-empty protocol
\* sets and batteries of 0.03, 0.15 and 0.02
DrainInputs ==
    {NodeInput(10, 10, 10, ACTIVE, 300, {BLE}),
     NodeInput(20, 10, 10, ACTIVE, 1500, {BLE, WIFI}),
     NodeInput(10, 20, 10, INTERMITTENT, 200, {BLE, CUSTOM})}

InitDrain == InitWith(RostersOf(DrainInputs, {<<0, 0, 0>>}))

\* every node of the roster is OFFLINE
AllOffline(roster) == \A i \in 1..Len(roster) : roster[i].state = OFFLINE

\* the caller goes on while a node is not OFFLINE, and for up to MaxSteps
\* ticks in all
Calling == steps < MaxSteps \/ ~AllOffline(nodes)

\* NetworkMesh.simulate_step, called with the dt of the tick before
drain_step ==
    /\ Calling
    /\ \E dt \in DrainDts :
          /\ steps = 0 \/ dt = last_dt
          /\ SimulateStep(dt)

\* a call of simulate_step is made: the steps of drain_step are those that
\* count a tick, and one is possible exactly when the caller goes on
Called == Calling /\ steps' = steps + 1

\* the caller keeps calling simulate_step
SpecDrain == InitDrain /\ [][drain_step]_vars /\ WF_steps(Called)

----------------------------------------------------------------------------
(* The life of nodes added with the defaults: ACTIVE, battery_level 100 *)

\* the dt arguments of the ticks of SpecLife, long enough to empty a battery
\* of 100 within MaxSteps ticks
LifeDts == {500, 3000}

\* nodes at rest with state ACTIVE and battery_level 100
LifeInputs ==
    {NodeInput(10, 10, 10, ACTIVE, 100 * BatScale, {BLE}),
     NodeInput(20, 10, 10, ACTIVE, 100 * BatScale, {BLE, WIFI})}

InitLife == InitWith(RostersOf(LifeInputs, {<<0, 0, 0>>}))

\* NetworkMesh.simulate_step, with its argument drawn from LifeDts
life_step ==
    /\ steps < MaxSteps
    /\ \E dt \in LifeDts : SimulateStep(dt)

SpecLife == InitLife /\ [][life_step]_vars

----------------------------------------------------------------------------
(* Configurations the design calls invalid: neither __init__ nor add_node nor
   simulate_step tests its arguments *)

\* bounds arguments with a zero or a negative extent, besides the valid ones
ConfigBounds ==
    BoundsInputs \cup {<<0, 25 * LenScale, 10 * LenScale>>,
                       <<-25 * LenScale, 25 * LenScale, 10 * LenScale>>}

\* a node with protocols, and a node with an empty protocol set
ConfigInputs ==
    {NodeInput(10, 10, 10, ACTIVE, 100 * BatScale, {BLE}),
     NodeInput(20, 10, 10, ACTIVE, 100 * BatScale, {})}

\* NetworkMesh.__init__(bounds) for any of ConfigBounds
InitConfig ==
    /\ nodes = <<>>
    /\ time = 0
    /\ bounds \in ConfigBounds
    /\ connections = <<>>
    /\ active_nodes = 0
    /\ attempts = <<>>
    /\ outcome = "none"
    /\ steps = 0
    /\ last_dt = 0

\* NetworkMesh.add_node, with its argument drawn from ConfigInputs
add_config_node ==
    /\ Len(nodes) < MaxNodes
    /\ nodes' \in Added(ConfigInputs)
    /\ outcome' = "added"
    /\ UNCHANGED <<time, bounds, connections, active_nodes, attempts, steps, last_dt>>

NextConfig == add_config_node \/ simulate_step

SpecConfig == InitConfig /\ [][NextConfig]_vars

----------------------------------------------------------------------------
(* Properties *)

\* the calls of the last simulate_step that returned True, in call order
SuccessfulCalls == SelectSeq(attempts, LAMBDA a : a.result)

\* a state right after a simulate_step that returned
AfterStep == outcome = "returned"

\* C1 -- terminal absorption: a node with battery_level 0 and state OFFLINE is
\* left OFFLINE with the same position, velocity and battery_level by every
\* operation, and no connection of a simulate_step made in that situation has
\* it as source or target.
C1_TerminalAbsorption ==
    [][\A i \in 1..Len(nodes) :
          (nodes[i].battery_level = 0 /\ nodes[i].state = OFFLINE) =>
             /\ nodes'[i].state = OFFLINE
             /\ nodes'[i].position = nodes[i].position
             /\ nodes'[i].velocity = nodes[i].velocity
             /\ nodes'[i].battery_level = nodes[i].battery_level
             /\ (steps' = steps + 1 =>
                   \A k \in 1..Len(connections') :
                      /\ connections'[k][1] # nodes[i].id
                      /\ connections'[k][2] # nodes[i].id)]_vars

\* a node that ran out of battery in an earlier tick, and an ACTIVE node that
\* tried to reach it in the last tick
C1_Witness ==
    \E i \in 1..Len(nodes) :
       /\ nodes[i].state = OFFLINE
       /\ nodes[i].battery_level = 0
       /\ nodes[i].position.t # 0
       /\ nodes[i].position.t # time
       /\ \E k \in 1..Len(attempts) :
             attempts[k].target = nodes[i].id /\ attempts[k].other_state = OFFLINE

\* C2 -- after a completed simulate_step every node of the roster whose
\* battery_level is 0 is OFFLINE.
C2_EmptyBatteryIsOffline ==
    AfterStep =>
       \A i \in 1..Len(nodes) : nodes[i].battery_level = 0 => nodes[i].state = OFFLINE

\* a node added ACTIVE with a positive battery that a tick drained to 0
C2_Witness ==
    /\ AfterStep
    /\ \E i \in 1..Len(nodes) :
          /\ nodes[i].battery_level = 0
          /\ nodes[i].state = OFFLINE
          /\ nodes[i].position.t > 0

\* C3 -- the state of a node changes only from ACTIVE to INTERMITTENT, from
\* ACTIVE to OFFLINE or from INTERMITTENT to OFFLINE.
C3_OneWayStates ==
    [][\A i \in 1..Len(nodes) :
          \/ nodes'[i].state = nodes[i].state
          \/ <<nodes[i].state, nodes'[i].state>> \in
                {<<ACTIVE, INTERMITTENT>>, <<ACTIVE, OFFLINE>>, <<INTERMITTENT, OFFLINE>>}]_vars

\* one node went OFFLINE in a tick and another, added ACTIVE, is INTERMITTENT
C3_Witness ==
    /\ \E i \in 1..Len(nodes) : nodes[i].state = OFFLINE /\ nodes[i].position.t # 0
    /\ \E i \in 1..Len(nodes) : nodes[i].state = INTERMITTENT /\ nodes[i].battery_level < 150

\* C4 -- the connections of a tick are its successful calls, and each is
\* between nodes of different ids, from a source that is ACTIVE to a target
\* that is not OFFLINE at the moment of the call.
C4_ConnectionEndpoints ==
    /\ Len(connections) = Len(SuccessfulCalls)
    /\ \A k \in 1..Len(connections) :
          LET a == SuccessfulCalls[k]
          IN  /\ connections[k] = <<a.source, a.target, a.protocol>>
              /\ a.source # a.target
              /\ a.self_state = ACTIVE
              /\ a.other_state # OFFLINE

\* a tick with a connection from an ACTIVE node to an INTERMITTENT node
C4_Witness ==
    /\ \E k \in 1..Len(SuccessfulCalls) : SuccessfulCalls[k].other_state = INTERMITTENT
    /\ Len(connections) > 0

\* the enumeration order the tie-break is stated in
EnumOrder == <<"BLE", "WIFI", "GPS", "CUSTOM">>

EnumIndex(p) == CHOOSE k \in 1..Len(EnumOrder) : EnumOrder[k] = p

SamePair(a, b) == a.source = b.source /\ a.target = b.target

\* C5 -- within a tick each ordered pair has at most one connection; a
\* successful call is the last call of its pair, every protocol before its
\* own in the order BLE, WIFI, GPS, CUSTOM was tried before it for the pair
\* and failed, and its protocol is the one of the pair's connection.
C5_FirstSuccessWins ==
    /\ \A k, m \in 1..Len(connections) :
          (connections[k][1] = connections[m][1] /\ connections[k][2] = connections[m][2])
             => k = m
    /\ \A k \in 1..Len(attempts) :
          attempts[k].result =>
             /\ \A m \in 1..Len(attempts) :
                   (m # k /\ SamePair(attempts[m], attempts[k])) =>
                      /\ m < k
                      /\ ~attempts[m].result
                      /\ EnumIndex(attempts[m].protocol) < EnumIndex(attempts[k].protocol)
             /\ \A q \in 1..(EnumIndex(attempts[k].protocol) - 1) :
                   \E m \in 1..(k - 1) :
                      /\ SamePair(attempts[m], attempts[k])
                      /\ attempts[m].protocol = EnumOrder[q]
                      /\ ~attempts[m].result
             /\ \E c \in 1..Len(connections) :
                   connections[c] = <<attempts[k].source, attempts[k].target,
                                      attempts[k].protocol>>

\* a pair out of BLE range that both support BLE and WIFI: BLE was tried and
\* failed, WIFI is the connection
C5_Witness ==
    \E k \in 1..Len(attempts) :
       /\ attempts[k].result
       /\ attempts[k].protocol = WIFI
       /\ BLE \in attempts[k].self_protocols \cap attempts[k].other_protocols

\* C6 -- a call returns False when the protocol is missing from the protocols
\* of either node or either node is OFFLINE.
C6_Prerequisites ==
    \A k \in 1..Len(attempts) :
       LET a == attempts[k]
       IN  (\/ a.protocol \notin a.self_protocols
            \/ a.protocol \notin a.other_protocols
            \/ a.self_state = OFFLINE
            \/ a.other_state = OFFLINE) => ~a.result

\* a call within range that is refused only because the other node lacks the protocol
C6_Witness ==
    \E k \in 1..Len(attempts) :
       LET a == attempts[k]
       IN  /\ ~a.result
           /\ a.protocol = WIFI
           /\ a.protocol \in a.self_protocols
           /\ a.protocol \notin a.other_protocols
           /\ a.self_state = ACTIVE
           /\ a.other_state = ACTIVE
           /\ a.distance_sq = 18 * 18

\* the nominal ranges the claim names, in length units
NominalRange(p) == IF p = "BLE" THEN 10 * LenScale
                   ELSE IF p = "WIFI" THEN 100 * LenScale
                   ELSE 50 * LenScale

\* C7 -- between two ACTIVE nodes that both support the protocol, a call
\* returns False when the distance exceeds 1.1 x the nominal range and True
\* when it is at most 0.9 x the nominal range; a GPS call returns True.
C7_RangeBounded ==
    \A k \in 1..Len(attempts) :
       LET a == attempts[k]
       IN  (/\ a.self_state = ACTIVE
            /\ a.other_state = ACTIVE
            /\ a.protocol \in a.self_protocols \cap a.other_protocols) =>
              IF a.protocol = "GPS"
              THEN a.result
              ELSE /\ 100 * a.distance_sq > 121 * NominalRange(a.protocol) * NominalRange(a.protocol)
                         => ~a.result
                   /\ 100 * a.distance_sq <= 81 * NominalRange(a.protocol) * NominalRange(a.protocol)
                         => a.result

\* a BLE call at distance 11.5 that is refused (at 10.0 the draw decides)
C7_Witness ==
    \E k \in 1..Len(attempts) :
       LET a == attempts[k]
       IN  /\ a.self_state = ACTIVE
           /\ a.other_state = ACTIVE
           /\ a.protocol = BLE
           /\ a.protocol \in a.self_protocols \cap a.other_protocols
           /\ a.distance_sq = 23 * 23
           /\ ~a.result

\* C8 -- over any sequence of simulate_step calls the battery_level of every
\* node is never negative and never higher after an operation than before it.
C8_BatteryNeverIncreases ==
    [][\A i \in 1..Len(nodes) :
          /\ nodes'[i].battery_level >= 0
          /\ nodes'[i].battery_level <= nodes[i].battery_level]_vars

\* C9 -- the active-node count a simulate_step reports is the number of nodes
\* of the roster that are ACTIVE at the end of that tick.
C9_ActiveCount ==
    AfterStep =>
       active_nodes = Cardinality({i \in 1..Len(nodes) : nodes[i].state = ACTIVE})

\* C10 -- a simulate_step on an empty roster completes without an error, with
\* 0 active nodes and an empty connection list.
C10_EmptyRoster ==
    (Len(nodes) = 0 /\ steps > 0) =>
       /\ outcome = "returned"
       /\ active_nodes = 0
       /\ connections = <<>>

\* a simulate_step with dt = 1 is being made
StepOfOne == steps' = steps + 1 /\ time' = time + 1

\* the roster of the two-node scenario: two ACTIVE nodes at rest that support
\* only BLE, with a battery above 21, at most 9.0 apart
TwoBleNodes ==
    /\ Len(nodes) = 2
    /\ \A i \in 1..2 :
          /\ nodes[i].state = ACTIVE
          /\ nodes[i].protocols = {"BLE"}
          /\ nodes[i].velocity = <<0, 0, 0>>
          /\ nodes[i].battery_level >= 21 * BatScale
    /\ distance_sq(nodes[1].position, nodes[2].position) <= (9 * LenScale) * (9 * LenScale)

\* each of the two nodes appends one encounter of the other
EachLogsTheOther ==
    \A i \in 1..2 :
       /\ Len(nodes'[i].memory) = Len(nodes[i].memory) + 1
       /\ nodes'[i].memory[Len(nodes'[i].memory)].node_id = nodes[3 - i].id

\* C11 as stated -- in the two-node scenario one simulate_step with dt = 1
\* makes exactly 1 connection, with BLE, and each node logs one encounter of
\* the other.
C11_OneConnection ==
    [][(TwoBleNodes /\ StepOfOne) =>
          /\ Len(connections') = 1
          /\ \A k \in 1..Len(connections') : connections'[k][3] = "BLE"
          /\ EachLogsTheOther]_vars

\* C11 as amended -- in the two-node scenario one simulate_step with dt = 1
\* makes exactly 2 connections, one in each direction, both with BLE, and
\* each node logs one encounter of the other.
C11_TwoConnections ==
    [][(TwoBleNodes /\ StepOfOne) =>
          /\ connections' = <<<<nodes[1].id, nodes[2].id, "BLE">>,
                              <<nodes[2].id, nodes[1].id, "BLE">>>>
          /\ EachLogsTheOther]_vars

\* the scenario after its tick: two BLE-only nodes 5.0 apart, one tick made
C11_Witness ==
    /\ Len(nodes) = 2
    /\ \A i \in 1..2 :
          /\ nodes[i].state = ACTIVE
          /\ nodes[i].protocols = {BLE}
          /\ nodes[i].battery_level >= 21 * BatScale
          /\ Len(nodes[i].memory) = 1
    /\ distance_sq(nodes[1].position, nodes[2].position) = 100
    /\ steps = 1
    /\ time = 1
    /\ Len(connections) = 2

\* C12 -- a node that is not OFFLINE and whose battery_level at the start of
\* a tick is at most 0.8 x (sum of the drain rates of its protocols) x dt has
\* battery_level 0 and state OFFLINE after that tick, whatever the draws.
C12_ExhaustedInOneTick ==
    [][steps' = steps + 1 =>
          \A i \in 1..Len(nodes) :
             (/\ nodes[i].state # OFFLINE
              /\ 100 * nodes[i].battery_level
                    <= 80 * total_drain(nodes[i]) * (time' - time)) =>
                /\ nodes'[i].battery_level = 0
                /\ nodes'[i].state = OFFLINE]_vars

\* the node of the scenario (battery 0.05, GPS only, rate 0.1) after one tick
\* with dt = 1
C12_Witness ==
    /\ steps = 1
    /\ time = 1
    /\ \E i \in 1..Len(nodes) :
          /\ nodes[i].protocols = {GPS}
          /\ nodes[i].position.y = 20
          /\ nodes[i].position.t = 1
          /\ nodes[i].battery_level = 0
          /\ nodes[i].state = OFFLINE

\* C13 -- invalid configuration is rejected and leaves the mesh as it was: no
\* mesh has a non-positive bound, no add_node puts a node with an empty
\* protocol set into the roster, and a simulate_step with a negative dt ends
\* in an error with time and roster unchanged.
C13_InvalidRejected ==
    [][/\ \A k \in 1..3 : bounds'[k] > 0
       /\ Len(nodes') > Len(nodes) => nodes'[Len(nodes')].protocols # {}
       /\ (steps' = steps + 1 /\ last_dt' < 0) =>
             /\ outcome' \notin {"returned", "added", "none"}
             /\ time' = time
             /\ nodes' = nodes]_vars

\* the node of the roster with the given id
NodeOf(id) == nodes[CHOOSE i \in 1..Len(nodes) : nodes[i].id = id]

\* C14 -- every connection of a tick was decided on the positions and states
\* its two endpoints have at the end of the tick; in particular its target
\* is not OFFLINE at the end of the tick.
C14_DecidedOnFinalState ==
    AfterStep =>
       \A k \in 1..Len(SuccessfulCalls) :
          LET a == SuccessfulCalls[k]
          IN  /\ NodeOf(a.target).state # OFFLINE
              /\ a.other_state = NodeOf(a.target).state
              /\ a.self_state = NodeOf(a.source).state
              /\ a.distance_sq = distance_sq(NodeOf(a.source).position,
                                             NodeOf(a.target).position)

\* the coordinate of a position on axis k (1 = x, 2 = y, 3 = z)
Coord(position, k) == IF k = 1 THEN position.x ELSE IF k = 2 THEN position.y ELSE position.z

\* the coordinate c is outside [0, bound] on axis k
OutsideOn(k, c) == c < 0 \/ c > bounds[k]

\* in the tick being made every node that is not OFFLINE moves by velocity x
\* dt without being clamped, and its velocity component on an axis is negated
\* (once) exactly when the new coordinate on that axis is outside [0, bound]
ReflectedOnce ==
    steps' = steps + 1 =>
       \A i \in 1..Len(nodes) :
          nodes[i].state # OFFLINE =>
             \A k \in 1..3 :
                LET moved == Coord(nodes[i].position, k) + nodes[i].velocity[k] * last_dt'
                IN  /\ Coord(nodes'[i].position, k) = moved
                    /\ nodes'[i].velocity[k] = IF OutsideOn(k, moved)
                                               THEN -nodes[i].velocity[k]
                                               ELSE nodes[i].velocity[k]

\* node i was inside on axis k before the last tick and that tick took it
\* outside (its velocity on k has been negated since)
Overshot(i, k) ==
    /\ steps > 0
    /\ OutsideOn(k, Coord(nodes[i].position, k))
    /\ ~OutsideOn(k, Coord(nodes[i].position, k) + nodes[i].velocity[k] * last_dt)

\* C15 as stated -- reflection negates the velocity once per axis, and a node
\* that was inside and overshoots is back inside after the following tick,
\* over any sequence of simulate_step calls.
C15_BackInsideNextTick ==
    [][/\ ReflectedOnce
       /\ steps' = steps + 1 =>
             \A i \in 1..Len(nodes) : \A k \in 1..3 :
                Overshot(i, k) => ~OutsideOn(k, Coord(nodes'[i].position, k))]_vars

\* C15 as amended -- reflection negates the velocity once per axis, and a node
\* that was inside and overshoots, and is not OFFLINE after that tick, is back
\* inside after a following tick made with the same dt.
C15_BackInsideSameDt ==
    [][/\ ReflectedOnce
       /\ (steps' = steps + 1 /\ last_dt' = last_dt) =>
             \A i \in 1..Len(nodes) : \A k \in 1..3 :
                (Overshot(i, k) /\ nodes[i].state # OFFLINE) =>
                   ~OutsideOn(k, Coord(nodes'[i].position, k))]_vars

\* a node that left the bounds on the y axis (its y velocity, drawn as -5, is
\* now +5) and is inside again on every axis
C15_Witness ==
    \E i \in 1..Len(nodes) :
       /\ nodes[i].state # OFFLINE
       /\ nodes[i].velocity[2] = 10
       /\ \A k \in 1..3 : ~OutsideOn(k, Coord(nodes[i].position, k))
       /\ steps = 3

\* the connections of the tick being made whose source is the node with this id
ConnectionsFrom(id) == SelectSeq(connections', LAMBDA c : c[1] = id)

\* the position node j has while node i is being handled in the tick being
\* made: the nodes before i in the roster have had their turn, the others not
PositionDuring(i, j) ==
    LET position == IF j < i THEN nodes'[j].position ELSE nodes[j].position
    IN  <<position.x, position.y, position.z>>

\* C16 -- encounter logging: a tick appends to each node's encounter log one
\* record per returned connection that has the node as source, in order, and
\* nothing else: the record carries the target's id, the mesh time of the
\* tick, the target's position at that moment and a label that is a protocol
\* of both nodes; every successful call had such a protocol; earlier records
\* are kept as they were by every operation.
C16_EncounterLogged ==
    [][/\ \A i \in 1..Len(nodes) :
             LET old == nodes[i].memory
                 new == nodes'[i].memory
             IN  /\ Len(new) >= Len(old)
                 /\ SubSeq(new, 1, Len(old)) = old
                 /\ steps' = steps => new = old
       /\ steps' = steps + 1 =>
             /\ \A k \in 1..Len(connections') :
                    \E i \in 1..Len(nodes) : nodes[i].id = connections'[k][1]
             /\ \A k \in 1..Len(attempts') :
                    attempts'[k].result =>
                       attempts'[k].self_protocols \cap attempts'[k].other_protocols # {}
             /\ \A i \in 1..Len(nodes) :
                    LET old == nodes[i].memory
                        new == nodes'[i].memory
                        mine == ConnectionsFrom(nodes[i].id)
                    IN  /\ Len(new) = Len(old) + Len(mine)
                        /\ \A k \in 1..Len(mine) :
                              LET record == new[Len(old) + k]
                                  j == CHOOSE j \in 1..Len(nodes) : nodes[j].id = mine[k][2]
                              IN  /\ record.node_id = mine[k][2]
                                  /\ record.timestamp = time'
                                  /\ record.position = PositionDuring(i, j)
                                  /\ record.protocol \in nodes[i].protocols \cap nodes[j].protocols]_vars

\* a tick has returned connections, and a node that had logged an encounter
\* before has logged another one, of a node that has moved, in this tick
C16_Witness ==
    /\ AfterStep
    /\ connections # <<>>
    /\ \E i \in 1..Len(nodes) :
          LET memory == nodes[i].memory
          IN  /\ Len(memory) >= 2
              /\ memory[Len(memory)].timestamp = time
              /\ memory[1].timestamp # time
              /\ memory[Len(memory)].position # memory[1].position

\* C17 as stated -- clock consistency: a tick with argument dt increases the
\* mesh time by exactly dt and the mesh time never decreases; a node that is
\* not OFFLINE and whose position.t is the mesh time has position.t equal to
\* the new mesh time after the tick, and an OFFLINE node's position.t stays
\* as it was when the node became OFFLINE.
C17_ClockConsistent ==
    [][/\ steps' = steps => time' = time
       /\ steps' = steps + 1 =>
             /\ time' = time + last_dt'
             /\ time' >= time
             /\ \A i \in 1..Len(nodes) :
                    /\ (nodes[i].state # OFFLINE /\ nodes[i].position.t = time) =>
                          nodes'[i].position.t = time'
                    /\ nodes[i].state = OFFLINE =>
                          nodes'[i].position.t = nodes[i].position.t]_vars

\* C18 -- eventual shutdown: under repeated ticks with one dt > 0 every node of
\* a non-empty roster with non-empty protocol sets is eventually OFFLINE, and
\* a tick made when all are OFFLINE returns no connection and changes only
\* the mesh time.
C18_EventualShutdown ==
    /\ <>AllOffline(nodes)
    /\ [][(AllOffline(nodes) /\ steps' = steps + 1) =>
             /\ connections' = <<>>
             /\ nodes' = nodes
             /\ bounds' = bounds
             /\ time' = time + last_dt]_vars

\* the whole roster is OFFLINE, a node of it had logged an encounter, and a
\* tick has been made since the last node went OFFLINE
C18_Witness ==
    /\ AllOffline(nodes)
    /\ AfterStep
    /\ connections = <<>>
    /\ \E i \in 1..Len(nodes) : nodes[i].memory # <<>>
    /\ \A i \in 1..Len(nodes) : nodes[i].position.t < time

\* C19 -- state/battery consistency: with nodes added ACTIVE with
\* battery_level 100 and ticks with dt > 0, a node is OFFLINE only if its
\* battery_level is 0 and INTERMITTENT only if 0 < battery_level < 20, so a
\* node with battery_level >= 20 is ACTIVE.
C19_StateMatchesBattery ==
    \A i \in 1..Len(nodes) :
       /\ nodes[i].state = OFFLINE => nodes[i].battery_level = 0
       /\ nodes[i].state = INTERMITTENT =>
             (0 < nodes[i].battery_level /\ nodes[i].battery_level < 20 * BatScale)
       /\ nodes[i].battery_level >= 20 * BatScale => nodes[i].state = ACTIVE

\* after a tick one node is INTERMITTENT with a battery_level under 20 and
\* another is OFFLINE, or still ACTIVE with a battery_level under 20
C19_Witness ==
    /\ AfterStep
    /\ \E i \in 1..Len(nodes) :
          nodes[i].state = INTERMITTENT /\ nodes[i].battery_level < 20 * BatScale
    /\ \E i \in 1..Len(nodes) :
          \/ nodes[i].state = OFFLINE
          \/ nodes[i].state = ACTIVE /\ nodes[i].battery_level < 20 * BatScale

====
